---------------------------- MODULE Spec2Model ----------------------------
(***************************************************************************)
(* State-machine model of the client-side resilience layer of BRN:         *)
(* StorageManager (expiring cache over AsyncStorage), ErrorHandler (error  *)
(* log with persistence and console hooks), NetworkManager (retry loop)    *)
(* and NotificationManager (inbox with per-type preferences).              *)
(*                                                                         *)
(* Execution model.  The JavaScript runtime is single threaded: the code   *)
(* between two awaits runs atomically.  AsyncStorage serves its requests   *)
(* in the order they are issued, so the effect of a request on the store   *)
(* is applied when the request is issued, and the code that awaits its     *)
(* result (the continuation) is kept in a FIFO queue and run by a later    *)
(* step.  Whether a request fails is decided by                            *)
(* the fault mode of the store, which the environment changes at will.     *)
(***************************************************************************)
EXTENDS Integers, Sequences, FiniteSets, TLC

(***************************************************************************)
(* Bounds of the model.                                                    *)
(***************************************************************************)
\* Date.now() ranges over 1..MaxTime.
MaxTime == 3
\* Error-log and notification ids are 1..MaxIds (each logError takes one).
MaxIds == 3
\* Cap of the error log: `100' in ErrorHandler.logError, scaled down so that
\* eviction happens within MaxIds entries.
MaxErrorLogs == 2
\* Cap of the notification list: `100' in createNotification, scaled down
\* like the cap of the error log.
MaxNotifications == 2
\* Calls that are suspended at an await at a time.
MaxQueue == 2
\* The values of retries a configuration is given are -1..MaxRetries.
MaxRetries == 2
\* The texts given to TextParser have up to MaxLen characters.
MaxLen == 3

(***************************************************************************)
(* Program constants.                                                      *)
(***************************************************************************)
\* StorageManager constructor: maxAge: 24 * 60 * 60 * 1000
DefaultMaxAge == 86400000
\* StorageManager constructor: maxSize: 50, and the `|| 50' fall-backs
DefaultMaxSize == 50
\* NetworkManager.defaultConfig: retries: 3, retryDelay: 1000
DefaultRetries == 3
DefaultRetryDelay == 1000

ErrorLogsKey == "error_logs"
NotificationsKey == "notifications"
PreferencesKey == "notification_preferences"
\* Cache keys the application uses ('theme_mode', 'user_<id>', ...).
UserKeys == {"k1", "k2", "k3"}
AllKeys == UserKeys \cup {ErrorLogsKey, NotificationsKey, PreferencesKey}
\* The order in which AsyncStorage.getAllKeys() lists the keys.
KeyOrder == <<"error_logs", "k1", "k2", "k3", "notifications", "notification_preferences">>

Severities == {"low", "medium", "high", "critical"}

VARIABLES
  store,         \* AsyncStorage: key -> stored string
  now,           \* Date.now()
  config,        \* StorageManager.config
  fault,         \* the request classes AsyncStorage currently fails
  errorLogs,     \* ErrorHandler.errorLogs, newest first
  isInitialized, \* ErrorHandler.isInitialized
  hooks,         \* how many times setupGlobalErrorHandlers wrapped console.error/warn
  nextId,        \* next id to hand out
  dev,           \* __DEV__
  alerts,        \* Alert.alert calls made by ErrorHandler
  queue,         \* continuations awaiting the result of a storage request, FIFO
  ret,           \* what the last public call returned or threw
  defaultConfig, \* NetworkManager.defaultConfig
  req,           \* the makeRequest call in progress: its locals and what it did
  notifications, \* NotificationManager.notifications, newest first
  preferences,   \* NotificationManager.preferences
  shown,         \* ids of the notifications showInAppNotification presented
  lastIndex      \* lastIndex of TextParser.mentionRegex and .hashtagRegex

vars == <<store, now, config, fault, errorLogs, isInitialized, hooks, nextId,
          dev, alerts, queue, ret, defaultConfig, req, notifications,
          preferences, shown, lastIndex>>

netVars == <<defaultConfig, req>>
notifVars == <<notifications, preferences, shown>>

(***************************************************************************)
(* Values and their JSON serialization.  A value handed to setItem is a    *)
(* sequence of records: the one-element sequence Value(v) for a scalar v,  *)
(* the list of entries for the error log.  "NaN" is a value JSON cannot    *)
(* carry, "null" stands for null and undefined.                            *)
(***************************************************************************)
UserValues == {"a", "bb", "NaN"}
NullValue == "null"
Value(v) == <<[v |-> v]>>
JsonSerializable(v) == v \in {"a", "bb"}

\* JSON.parse(JSON.stringify(x)): a non-finite number comes back as null,
\* everything JSON can carry comes back as it was.
JsonRoundTrip(x) == IF x = [v |-> "NaN"] THEN [v |-> NullValue] ELSE x
JsonData(data) == [i \in DOMAIN data |-> JsonRoundTrip(data[i])]

\* Size of the serialized scalar, in the unit maxSize is configured in.
ScalarSize(v) == IF v = "bb" THEN 2 ELSE 1

(***************************************************************************)
(* Strings held by AsyncStorage.  kind "item" is the JSON text of a        *)
(* CacheItem, "json" is JSON text that is an object but no CacheItem,      *)
(* "garbage" does not parse, "absent" stands for no entry.  expiresAt = 0  *)
(* stands for an omitted expiresAt (JSON.stringify drops undefined).       *)
(* orig and age are history fields no operation reads: the value and the   *)
(* maxAge setItem was called with.                                         *)
(***************************************************************************)
Absent ==
  [kind |-> "absent", data |-> <<>>, timestamp |-> 0, expiresAt |-> 0, size |-> 0,
   orig |-> <<>>, age |-> 0]
RawJson ==
  [kind |-> "json", data |-> <<>>, timestamp |-> 0, expiresAt |-> 0, size |-> 1,
   orig |-> <<>>, age |-> 0]
Garbage ==
  [kind |-> "garbage", data |-> <<>>, timestamp |-> 0, expiresAt |-> 0, size |-> 1,
   orig |-> <<>>, age |-> 0]

\* const item = { data, timestamp: Date.now(), expiresAt: maxAge ? Date.now() + maxAge : undefined }
\* t1 and t2 are the two readings of the clock.
CacheItem(data, t1, t2, maxAge) ==
  [data |-> data, timestamp |-> t1, expiresAt |-> IF maxAge # 0 THEN t2 + maxAge ELSE 0]

\* JSON.stringify(item) together with the size new Blob([s]).size of the text.
Stringify(item, size) ==
  [kind |-> "item", data |-> JsonData(item.data), timestamp |-> item.timestamp,
   expiresAt |-> item.expiresAt, size |-> size, orig |-> item.data,
   age |-> config.maxAge]

(***************************************************************************)
(* The part of the state that a chain of calls threads through: an         *)
(* operator below takes such a record and returns the record after the     *)
(* call.  t is the clock, out the value the call returned or threw.        *)
(***************************************************************************)
World ==
  [logs |-> errorLogs, nid |-> nextId, st |-> store, q |-> queue,
   al |-> alerts, t |-> now,
   out |-> [tag |-> "none", data |-> <<>>, msg |-> ""]]

\* What a call gave its caller: tag "ok" (returned nothing), "data" (returned
\* data), "null", "undefined", or "throw" (threw or rejected with msg).
Out(tag, data) == [tag |-> tag, data |-> data, msg |-> ""]
Throw(msg) == [tag |-> "throw", data |-> <<>>, msg |-> msg]

Take(s, n) == SubSeq(s, 1, IF Len(s) < n THEN Len(s) ELSE n)

\* A continuation in the queue: the code after an await, with the result of
\* the awaited storage request.
Cont(kind, severity, ok, id, val) ==
  [kind |-> kind, severity |-> severity, ok |-> ok, id |-> id, val |-> val]

(***************************************************************************)
(* ErrorHandler.logError, up to its await.                                 *)
(***************************************************************************)
\* The cut taking the wrong end of the list: slice(1) for slice(0, 100).
TruncateNewest(logs) ==
  IF Len(logs) > MaxErrorLogs THEN SubSeq(logs, 2, Len(logs)) ELSE logs

\* if (this.errorLogs.length > 100) this.errorLogs = this.errorLogs.slice(0, 100)
TruncateLogs(logs) == IF Len(logs) > MaxErrorLogs THEN Take(logs, MaxErrorLogs) ELSE logs

\* The entry is built and put at the head, the list is cut to the cap, and
\* storageManager.setItem('error_logs', this.errorLogs) runs up to its own
\* await: the list is serialized as it is now and the write is issued.  The
\* serialized list is far below one unit of maxSize (size 0).
LogError(w, severity) ==
  LET errorLog == [id |-> w.nid, severity |-> severity, resolved |-> FALSE]
      logs == TruncateLogs(<<errorLog>> \o w.logs)
      ok == "write" \notin fault
      item == CacheItem(logs, w.t, w.t, config.maxAge)
  IN [w EXCEPT
        !.logs = logs,
        !.nid = w.nid + 1,
        !.st = IF ok THEN [w.st EXCEPT ![ErrorLogsKey] = Stringify(item, 0)] ELSE w.st,
        !.q = Append(w.q, Cont("logSave", severity, ok, w.nid, <<>>))]

RECURSIVE LogErrorTimes(_, _, _)
LogErrorTimes(w, severity, n) ==
  IF n = 0 THEN w ELSE LogErrorTimes(LogError(w, severity), severity, n - 1)

\* A call of console.error once setupGlobalErrorHandlers has run `hooks'
\* times: every wrapper logs a medium entry and calls the one it wrapped.
ConsoleError(w) == LogErrorTimes(w, "medium", hooks)

\* The same for console.warn: a low entry per wrapper.
ConsoleWarn(w) == LogErrorTimes(w, "low", hooks)

\* handleStorageError(error, operation): logError('Storage Error', ..., 'medium', ...)
HandleStorageError(w) == LogError(w, "medium")

(***************************************************************************)
(* StorageManager.                                                         *)
(***************************************************************************)
\* this.config.maxSize || 50
EffectiveMaxSize == IF config.maxSize # 0 THEN config.maxSize ELSE DefaultMaxSize

\* !key || typeof key !== 'string'
InvalidKey(key) == key = ""

\* The size check with the limit off by one.
TooLargeOffByOne(size) == size > EffectiveMaxSize + 1

\* sizeInMB > (this.config.maxSize || 50)
TooLarge(size) == size > EffectiveMaxSize

\* setItem(key, value): value is `data', its serialized size `size'; the clock
\* advances by d between the two Date.now() of the item.
SMSetItem(w, key, data, size, d) ==
  IF InvalidKey(key)
  THEN [HandleStorageError(w) EXCEPT !.out = Throw("Invalid key provided")]
  ELSE IF data = Value(NullValue)
  THEN [HandleStorageError(w) EXCEPT !.out = Throw("Cannot store undefined or null values")]
  ELSE LET w1 == [w EXCEPT !.t = w.t + d]
           item == CacheItem(data, w.t, w.t + d, config.maxAge)
       IN IF TooLarge(size)
          THEN [HandleStorageError(w1) EXCEPT !.out = Throw("Data too large")]
          ELSE IF "write" \in fault
          THEN [HandleStorageError(w1) EXCEPT !.out = Throw("AsyncStorage failure")]
          ELSE [w1 EXCEPT !.st = [w1.st EXCEPT ![key] = Stringify(item, size)],
                          !.out = Out("ok", <<>>)]

\* removeItem(key)
SMRemoveItem(w, key) ==
  IF InvalidKey(key)
  THEN [HandleStorageError(w) EXCEPT !.out = Throw("Invalid key provided")]
  ELSE IF "remove" \in fault
  THEN [HandleStorageError(w) EXCEPT !.out = Throw("AsyncStorage failure")]
  ELSE [w EXCEPT !.st = [w.st EXCEPT ![key] = Absent], !.out = Out("ok", <<>>)]

\* The catch block without the removal of the corrupted entry.
GetItemCatchKeeps(w, key) == [HandleStorageError(w) EXCEPT !.out = Out("null", <<>>)]

\* The catch block of getItem: report, try to remove the entry straight from
\* AsyncStorage, return null.
GetItemCatch(w, key) ==
  LET w1 == HandleStorageError(w)
      w2 == IF "remove" \in fault
            THEN ConsoleError(w1)
            ELSE IF key \in DOMAIN w1.st
                 THEN [w1 EXCEPT !.st = [w1.st EXCEPT ![key] = Absent]]
                 ELSE w1
  IN [w2 EXCEPT !.out = Out("null", <<>>)]

\* return null, after console.log(`Storage: ${key} expired and was removed`)
Expiry == [tag |-> "null", data |-> <<>>, msg |-> "expired and was removed"]

\* The expiry check with the comparison the wrong way round.
ExpiredFlipped(s, t) == s.expiresAt # 0 /\ t < s.expiresAt

\* cacheItem.expiresAt && Date.now() > cacheItem.expiresAt
Expired(s, t) == s.expiresAt # 0 /\ t > s.expiresAt

\* getItem(key)
SMGetItem(w, key) ==
  IF InvalidKey(key) \/ "read" \in fault THEN GetItemCatch(w, key)
  ELSE LET s == w.st[key] IN
    CASE s.kind = "absent" -> [w EXCEPT !.out = Out("null", <<>>)]
      [] s.kind = "garbage" -> GetItemCatch(w, key)
      [] s.kind = "json" -> [w EXCEPT !.out = Out("undefined", <<>>)]
      [] OTHER ->
           IF Expired(s, w.t)
           THEN LET w1 == SMRemoveItem(w, key)
                IN IF w1.out.tag = "throw" THEN GetItemCatch(w1, key)
                   ELSE [w1 EXCEPT !.out = Expiry]
           ELSE [w EXCEPT !.out = Out("data", s.data)]

\* The sweep's check with the instant of expiry counted as past.
SweepExpiredOrEqual(s, t) == s.expiresAt # 0 /\ t >= s.expiresAt

\* cacheItem.expiresAt && now > cacheItem.expiresAt, with the now that was
\* read before the loop
SweepExpired(s, t) == s.expiresAt # 0 /\ t > s.expiresAt

\* cleanupExpiredCache(): AsyncStorage.getAllKeys(), then for every key the
\* string is read and parsed, and the key is removed when the parsed object
\* has an expiresAt that is past.  A string that does not parse is skipped,
\* and so is a removal that fails: both end in the inner catch.  A failure
\* of getAllKeys or of a read is reported by the outer catch; nothing is
\* thrown.
SMCleanupExpiredCache(w) ==
  IF "read" \in fault
  THEN [HandleStorageError(w) EXCEPT !.out = Out("ok", <<>>)]
  ELSE [w EXCEPT
          !.st = [key \in DOMAIN w.st |->
                    IF /\ w.st[key].kind \in {"item", "json"}
                       /\ SweepExpired(w.st[key], w.t)
                       /\ "remove" \notin fault
                    THEN Absent ELSE w.st[key]],
          !.out = Out("ok", <<>>)]

\* multiSet(keyValuePairs) with one pair: the string goes to AsyncStorage as
\* it is, without a CacheItem around it.
SMMultiSet(w, key, string) ==
  IF "write" \in fault
  THEN [HandleStorageError(w) EXCEPT !.out = Throw("AsyncStorage failure")]
  ELSE [w EXCEPT !.st = [w.st EXCEPT ![key] = string], !.out = Out("ok", <<>>)]

\* getAllKeys(): the keys that hold a string, in the order of AsyncStorage;
\* the empty list, after reporting, when AsyncStorage fails.
SMGetAllKeys(w) ==
  IF "read" \in fault
  THEN [HandleStorageError(w) EXCEPT !.out = Out("data", <<>>)]
  ELSE LET keys == SelectSeq(KeyOrder, LAMBDA k : w.st[k].kind # "absent")
       IN [w EXCEPT !.out = Out("data", [i \in DOMAIN keys |-> [key |-> keys[i]]])]

\* What AsyncStorage.multiGet pairs a key with: the string it holds (its kind
\* stands for it), null when it holds none.
Pair(st, key) ==
  [key |-> key, value |-> IF st[key].kind = "absent" THEN "null" ELSE st[key].kind]

\* multiGet with the fall-back of getAllKeys: the empty list on failure.
SMMultiGetEmpty(w, keys) ==
  IF "read" \in fault
  THEN [HandleStorageError(w) EXCEPT !.out = Out("data", <<>>)]
  ELSE [w EXCEPT !.out = Out("data", [i \in DOMAIN keys |-> Pair(w.st, keys[i])])]

\* multiGet(keys) with an array of keys: the pairs of AsyncStorage.multiGet;
\* keys.map(key => [key, null]), after reporting, when AsyncStorage fails.
SMMultiGet(w, keys) ==
  IF "read" \in fault
  THEN [HandleStorageError(w) EXCEPT
          !.out = Out("data", [i \in DOMAIN keys |-> [key |-> keys[i], value |-> "null"]])]
  ELSE [w EXCEPT !.out = Out("data", [i \in DOMAIN keys |-> Pair(w.st, keys[i])])]

\* clear()
SMClear(w) ==
  IF "remove" \in fault
  THEN [HandleStorageError(w) EXCEPT !.out = Throw("AsyncStorage failure")]
  ELSE [w EXCEPT !.st = [k \in DOMAIN w.st |-> Absent], !.out = Out("ok", <<>>)]

RECURSIVE SumSizes(_, _)
SumSizes(st, keys) ==
  IF keys = {} THEN 0
  ELSE LET k == CHOOSE x \in keys : TRUE IN st[k].size + SumSizes(st, keys \ {k})

\* The total getCacheSize() adds up: the size of every string in the store.
TotalSize(st) == SumSizes(st, DOMAIN st)

\* getCacheSize(): the total, or 0 after reporting when AsyncStorage fails.
\* The world returned carries the number in out.data.
SMGetCacheSize(w) ==
  IF "read" \in fault
  THEN [HandleStorageError(w) EXCEPT !.out = Out("data", <<0>>)]
  ELSE [w EXCEPT !.out = Out("data", <<TotalSize(w.st)>>)]

\* The items clearOldCache collects, in getAllKeys order: every entry whose
\* string parses, with cacheItem.timestamp (-1 for undefined: the string
\* parsed to something that is no CacheItem).
RECURSIVE CollectItems(_, _)
CollectItems(st, i) ==
  IF i > Len(KeyOrder) THEN <<>>
  ELSE LET key == KeyOrder[i]
           s == st[key]
           rest == CollectItems(st, i + 1)
       IN CASE s.kind = "item" -> <<[key |-> key, timestamp |-> s.timestamp]>> \o rest
            [] s.kind = "json" -> <<[key |-> key, timestamp |-> -1]>> \o rest
            [] OTHER -> rest

\* Insertion of x behind the last element that is not after it.
RECURSIVE InsertSorted(_, _)
InsertSorted(sorted, x) ==
  IF sorted = <<>> THEN <<x>>
  ELSE IF Head(sorted).timestamp > x.timestamp
       THEN <<x>> \o sorted
       ELSE <<Head(sorted)>> \o InsertSorted(Tail(sorted), x)

RECURSIVE StableSort(_)
StableSort(items) ==
  IF items = <<>> THEN <<>>
  ELSE InsertSorted(StableSort(SubSeq(items, 1, Len(items) - 1)), items[Len(items)])

Orderings(items) ==
  { [i \in DOMAIN items |-> items[f[i]]] :
      f \in { g \in [DOMAIN items -> DOMAIN items] :
                \A i, j \in DOMAIN items : i # j => g[i] # g[j] } }

\* (a, b) => a.timestamp - b.timestamp is NaN when a timestamp is undefined,
\* which sort() takes for `equal'.  It is then a consistent comparator only
\* if all defined timestamps are equal too.
ConsistentComparator(items) ==
  \/ \A i \in DOMAIN items : items[i].timestamp # -1
  \/ \A i, j \in DOMAIN items :
        (items[i].timestamp # -1 /\ items[j].timestamp # -1)
          => items[i].timestamp = items[j].timestamp

\* items.sort((a, b) => a.timestamp - b.timestamp): the orders the sort may
\* leave the items in.  Array.prototype.sort is stable; with an inconsistent
\* comparator the order is implementation-defined.
SortOutcomes(items) ==
  IF ConsistentComparator(items) THEN {StableSort(items)} ELSE Orderings(items)

\* for (const item of items) { removeItem; newSize = getCacheSize(); if
\* (newSize <= maxSize) break; } from position i of the sorted items.  A
\* failing removeItem throws to the catch of clearOldCache, which reports it.
RECURSIVE RemoveOldest(_, _, _)
RemoveOldest(w, items, i) ==
  IF i > Len(items) THEN w
  ELSE IF "remove" \in fault THEN HandleStorageError(w)
  ELSE LET w1 == [w EXCEPT !.st = [w.st EXCEPT ![items[i].key] = Absent]]
           w2 == SMGetCacheSize(w1)
       IN IF w2.out.data[1] <= EffectiveMaxSize THEN w2
          ELSE RemoveOldest(w2, items, i + 1)

\* clearOldCache(), the sort leaving the collected items in the order given.
\* The final console.log measures the size once more.
SMClearOldCache(w, order) ==
  LET w1 == SMGetCacheSize(w)
      w2 == IF w1.out.data[1] > EffectiveMaxSize
            THEN SMGetCacheSize(RemoveOldest(w1, order, 1))
            ELSE w1
  IN [w2 EXCEPT !.out = Out("ok", <<>>)]

(***************************************************************************)
(* The state after the modules are loaded.                                 *)
(***************************************************************************)
\* The values setConfig is called with; 0 stands for a falsy value (0 or an
\* explicit undefined), which the code takes for `not configured'.
MaxAges == {0, 1}
MaxSizes == {0, 1}

FaultModes == {{}, {"read"}, {"write"}, {"remove"}}

NoRet == [op |-> "none", key |-> "", arg |-> "", tag |-> "none",
          data |-> <<>>, msg |-> ""]

\* No makeRequest call has been made.
NoRequest ==
  [pc |-> "idle", verb |-> "", retries |-> 0, retryDelay |-> 0, attempt |-> 0,
   attempts |-> 0, delays |-> <<>>, responses |-> <<>>, timers |-> 0,
   url |-> <<>>, fullUrl |-> <<>>]

NotificationTypes == {"like", "system"}

Loaded ==
  /\ store = [k \in AllKeys |-> Absent]
  /\ now = 1
  /\ config = [maxAge |-> DefaultMaxAge, maxSize |-> DefaultMaxSize]
  /\ fault = {}
  /\ errorLogs = <<>>
  /\ isInitialized = FALSE
  /\ hooks = 0
  /\ nextId = 1
  /\ alerts = 0
  /\ queue = <<>>
  /\ ret = NoRet
  /\ defaultConfig = [retries |-> DefaultRetries, retryDelay |-> DefaultRetryDelay]
  /\ req = NoRequest
  /\ notifications = <<>>
  /\ preferences = [type \in NotificationTypes |-> TRUE]
  /\ shown = {}
  /\ lastIndex = [mention |-> 0, hashtag |-> 0]

\* A production build.
Init == Loaded /\ dev = FALSE

\* A production or a development build.
InitAnyBuild == Loaded /\ dev \in BOOLEAN

\* The new state is the one the world record describes.
Commit(w) ==
  /\ errorLogs' = w.logs
  /\ nextId' = w.nid
  /\ store' = w.st
  /\ queue' = w.q
  /\ alerts' = w.al
  /\ now' = w.t

\* Ids stay within 1..MaxIds.
WithinBounds(w) == w.nid <= MaxIds + 1 /\ w.t <= MaxTime

Ret(op, key, arg, out) ==
  [op |-> op, key |-> key, arg |-> arg, tag |-> out.tag,
   data |-> out.data, msg |-> out.msg]

\* A call of a StorageManager method that is awaited to its end with nothing
\* else in flight.
Quiet == queue = <<>>

\* The calls suspended at an await, the two loads that the constructor of
\* NotificationManager starts left aside.
Suspended ==
  SelectSeq(queue, LAMBDA c : c.kind \notin {"loadNotifications", "loadPreferences"})

\* Another call that suspends at an await may start.
Room == Len(Suspended) < MaxQueue

(***************************************************************************)
(* The environment.                                                        *)
(***************************************************************************)
Tick ==
  /\ now < MaxTime
  /\ now' = now + 1
  /\ UNCHANGED <<store, config, fault, errorLogs, isInitialized, hooks, nextId,
                 dev, alerts, queue, ret, netVars, notifVars, lastIndex>>

SetFault(f) ==
  /\ f # fault
  /\ fault' = f
  /\ UNCHANGED <<store, now, config, errorLogs, isInitialized, hooks, nextId,
                 dev, alerts, queue, ret, netVars, notifVars, lastIndex>>

\* setConfig(partial): this.config = { ...this.config, ...partial }
SetConfig(partial) ==
  /\ config' = [f \in DOMAIN config |->
                  IF f \in DOMAIN partial THEN partial[f] ELSE config[f]]
  /\ config' # config
  /\ UNCHANGED <<store, now, fault, errorLogs, isInitialized, hooks, nextId,
                 dev, alerts, queue, ret, netVars, notifVars, lastIndex>>

(***************************************************************************)
(* Calls of StorageManager.                                                *)
(***************************************************************************)
SetItem(key, v, d) ==
  LET w == SMSetItem(World, key, Value(v), ScalarSize(v), d) IN
  /\ Quiet
  /\ WithinBounds(w)
  /\ Commit(w)
  /\ ret' = Ret("setItem", key, "", w.out)
  /\ UNCHANGED <<config, fault, isInitialized, hooks, dev, netVars, notifVars,
                 lastIndex>>

\* ret.arg records what kind of string the key held when the call was made.
GetItem(key) ==
  LET w == SMGetItem(World, key) IN
  /\ Quiet
  /\ WithinBounds(w)
  /\ Commit(w)
  /\ ret' = Ret("getItem", key, IF key \in DOMAIN store THEN store[key].kind ELSE "", w.out)
  /\ UNCHANGED <<config, fault, isInitialized, hooks, dev, netVars, notifVars,
                 lastIndex>>

RemoveItem(key) ==
  LET w == SMRemoveItem(World, key) IN
  /\ Quiet
  /\ WithinBounds(w)
  /\ Commit(w)
  /\ ret' = Ret("removeItem", key, "", w.out)
  /\ UNCHANGED <<config, fault, isInitialized, hooks, dev, netVars, notifVars,
                 lastIndex>>

MultiSet(key, string) ==
  LET w == SMMultiSet(World, key, string) IN
  /\ Quiet
  /\ WithinBounds(w)
  /\ Commit(w)
  /\ ret' = Ret("multiSet", key, string.kind, w.out)
  /\ UNCHANGED <<config, fault, isInitialized, hooks, dev, netVars, notifVars,
                 lastIndex>>

GetAllKeys ==
  LET w == SMGetAllKeys(World) IN
  /\ Quiet
  /\ WithinBounds(w)
  /\ Commit(w)
  /\ ret' = Ret("getAllKeys", "", "", w.out)
  /\ UNCHANGED <<config, fault, isInitialized, hooks, dev, netVars, notifVars,
                 lastIndex>>

MultiGet(keys) ==
  LET w == SMMultiGet(World, keys) IN
  /\ Quiet
  /\ WithinBounds(w)
  /\ Commit(w)
  /\ ret' = Ret("multiGet", "", "", w.out)
  /\ UNCHANGED <<config, fault, isInitialized, hooks, dev, netVars, notifVars,
                 lastIndex>>

ClearOldCache ==
  \E order \in SortOutcomes(CollectItems(store, 1)) :
    LET w == SMClearOldCache(World, order) IN
    /\ Quiet
    /\ WithinBounds(w)
    /\ Commit(w)
    /\ ret' = Ret("clearOldCache", "", "", w.out)
    /\ UNCHANGED <<config, fault, isInitialized, hooks, dev, netVars, notifVars,
                   lastIndex>>

(***************************************************************************)
(* The continuation at the head of the queue runs.                         *)
(***************************************************************************)
\* logError after `await storageManager.setItem(...)'.  When the write
\* failed, setItem's catch has reported it through handleStorageError and
\* rethrown, and logError's catch calls console.error.  Then, in a
\* development build, console.error(error); then the alert of a critical
\* entry; then the id is returned.
LogSaved ==
  /\ queue # <<>>
  /\ Head(queue).kind = "logSave"
  /\ LET c == Head(queue)
         w0 == [World EXCEPT !.q = Tail(queue)]
         w1 == IF c.ok THEN w0 ELSE ConsoleError(HandleStorageError(w0))
         w2 == IF dev THEN ConsoleError(w1) ELSE w1
         w3 == IF c.severity = "critical" THEN [w2 EXCEPT !.al = w2.al + 1] ELSE w2
     IN /\ WithinBounds(w3)
        /\ Commit(w3)
        /\ ret' = Ret("logError", "", c.severity, Out("data", <<[id |-> c.id]>>))
  /\ UNCHANGED <<config, fault, isInitialized, hooks, dev, netVars, notifVars,
                 lastIndex>>

NextStore ==
  \/ Tick
  \/ \E f \in FaultModes : SetFault(f)
  \/ \E a \in MaxAges : SetConfig([maxAge |-> a])
  \/ \E m \in MaxSizes : SetConfig([maxSize |-> m])
  \/ \E v \in UserValues \cup {NullValue}, d \in {0, 1} : SetItem("k1", v, d)
  \/ SetItem("", "a", 0)
  \/ GetItem("k1")
  \/ RemoveItem("k1")
  \/ \E string \in {RawJson, Garbage} : MultiSet("k1", string)
  \/ LogSaved

SpecStore == Init /\ [][NextStore]_vars

\* Eviction: two keys written by setItem, one by multiSet.
NextEvict ==
  \/ Tick
  \/ \E f \in {{}, {"remove"}} : SetFault(f)
  \/ \E m \in MaxSizes : SetConfig([maxSize |-> m])
  \/ \E key \in {"k1", "k3"}, v \in {"a", "bb"} : SetItem(key, v, 0)
  \/ \E string \in {RawJson, Garbage} : MultiSet("k2", string)
  \/ ClearOldCache
  \/ LogSaved

SpecEvict == Init /\ [][NextEvict]_vars

\* ret.arg records whether the sweep removed anything.
CleanupExpiredCache ==
  LET w == SMCleanupExpiredCache(World) IN
  /\ Quiet
  /\ WithinBounds(w)
  /\ Commit(w)
  /\ ret' = Ret("cleanupExpiredCache", "",
                IF w.st # store THEN "removed" ELSE "", w.out)
  /\ UNCHANGED <<config, fault, isInitialized, hooks, dev, netVars, notifVars,
                 lastIndex>>

\* Entries of different ages and strings that are no entries, swept at
\* different times.
NextSweep ==
  \/ Tick
  \/ \E f \in {{}, {"read"}, {"remove"}} : SetFault(f)
  \/ \E a \in MaxAges : SetConfig([maxAge |-> a])
  \/ \E key \in {"k1", "k3"} : SetItem(key, "a", 0)
  \/ \E string \in {RawJson, Garbage} : MultiSet("k2", string)
  \/ CleanupExpiredCache
  \/ LogSaved

SpecSweep == Init /\ [][NextSweep]_vars

\* The arrays of keys multiGet is called with.
KeyLists == {<<>>, <<"k1">>, <<"k2", "k1">>}

\* The operations that pass through to AsyncStorage.
NextPass ==
  \/ \E f \in FaultModes : SetFault(f)
  \/ \E v \in {"a", "bb"} : SetItem("k1", v, 0)
  \/ \E key \in {"k1", "k2"}, string \in {RawJson, Garbage} : MultiSet(key, string)
  \/ RemoveItem("k2")
  \/ GetAllKeys
  \/ \E keys \in KeyLists : MultiGet(keys)
  \/ LogSaved

SpecPass == Init /\ [][NextPass]_vars

(***************************************************************************)
(* Calls of ErrorHandler.  A call of logError runs up to its await when it *)
(* is made, also when a wrapper makes it and drops the promise; what       *)
(* follows the await is LogSaved.                                          *)
(***************************************************************************)
\* handleNetworkError(error, context): logError(..., 'medium', ...) and
\* Alert.alert('Connection Error', ...)
HandleNetworkError(w) ==
  LET w1 == LogError(w, "medium") IN [w1 EXCEPT !.al = w1.al + 1]

\* handleGlobalError(error, isFatal)
HandleGlobalError(w, isFatal) ==
  LET w1 == LogError(w, IF isFatal THEN "critical" ELSE "high")
  IN IF isFatal THEN [w1 EXCEPT !.al = w1.al + 1] ELSE w1

Done(op) == Ret(op, "", "", Out("ok", <<>>))

LogErrorCall(severity) ==
  LET w == LogError(World, severity) IN
  /\ Room
  /\ WithinBounds(w)
  /\ Commit(w)
  /\ UNCHANGED <<ret, config, fault, isInitialized, hooks, dev, netVars, notifVars,
                 lastIndex>>

HandleNetworkErrorCall ==
  LET w == HandleNetworkError(World) IN
  /\ WithinBounds(w)
  /\ Commit(w)
  /\ UNCHANGED <<ret, config, fault, isInitialized, hooks, dev, netVars, notifVars,
                 lastIndex>>

HandleStorageErrorCall ==
  LET w == HandleStorageError(World) IN
  /\ WithinBounds(w)
  /\ Commit(w)
  /\ UNCHANGED <<ret, config, fault, isInitialized, hooks, dev, netVars, notifVars,
                 lastIndex>>

\* handleComponentError(error, componentName, screenName)
HandleComponentError ==
  LET w == LogError(World, "medium") IN
  /\ WithinBounds(w)
  /\ Commit(w)
  /\ UNCHANGED <<ret, config, fault, isInitialized, hooks, dev, netVars, notifVars,
                 lastIndex>>

\* handleValidationError(field, message)
HandleValidationError ==
  LET w == LogError(World, "low") IN
  /\ WithinBounds(w)
  /\ Commit(w)
  /\ UNCHANGED <<ret, config, fault, isInitialized, hooks, dev, netVars, notifVars,
                 lastIndex>>

\* handlePerformanceIssue(operation, duration, threshold)
HandlePerformanceIssue(duration, threshold) ==
  LET w == IF duration > threshold THEN LogError(World, "low") ELSE World IN
  /\ WithinBounds(w)
  /\ Commit(w)
  /\ UNCHANGED <<ret, config, fault, isInitialized, hooks, dev, netVars, notifVars,
                 lastIndex>>

\* The handler given to ErrorUtils.setGlobalHandler is called.
GlobalError(isFatal) ==
  LET w == HandleGlobalError(World, isFatal) IN
  /\ hooks > 0
  /\ WithinBounds(w)
  /\ Commit(w)
  /\ UNCHANGED <<ret, config, fault, isInitialized, hooks, dev, netVars, notifVars,
                 lastIndex>>

\* The application calls console.error / console.warn.
ConsoleErrorCall ==
  LET w == ConsoleError(World) IN
  /\ hooks > 0
  /\ WithinBounds(w)
  /\ Commit(w)
  /\ UNCHANGED <<ret, config, fault, isInitialized, hooks, dev, netVars, notifVars,
                 lastIndex>>

ConsoleWarnCall ==
  LET w == ConsoleWarn(World) IN
  /\ hooks > 0
  /\ WithinBounds(w)
  /\ Commit(w)
  /\ UNCHANGED <<ret, config, fault, isInitialized, hooks, dev, netVars, notifVars,
                 lastIndex>>

\* initialize() up to `await storageManager.getItem('error_logs')'.
Initialize ==
  IF isInitialized
  THEN /\ ret' = Done("initialize")
       /\ UNCHANGED <<store, now, config, fault, errorLogs, isInitialized, hooks,
                      nextId, dev, alerts, queue, netVars, notifVars,
                      lastIndex>>
  ELSE LET w0 == SMGetItem(World, ErrorLogsKey)
           w == [w0 EXCEPT !.q = Append(w0.q, Cont("initLoad", "", TRUE, 0, w0.out))]
       IN /\ Room
          /\ WithinBounds(w)
          /\ Commit(w)
          /\ UNCHANGED <<ret, config, fault, isInitialized, hooks, dev, netVars,
                         notifVars, lastIndex>>

\* initialize() after the await: if (cached) this.errorLogs = cached;
\* setupGlobalErrorHandlers(); this.isInitialized = true.
InitLoaded ==
  /\ queue # <<>>
  /\ Head(queue).kind = "initLoad"
  /\ errorLogs' = IF Head(queue).val.tag = "data" THEN Head(queue).val.data
                  ELSE errorLogs
  /\ hooks' = hooks + 1
  /\ isInitialized' = TRUE
  /\ queue' = Tail(queue)
  /\ ret' = Done("initialize")
  /\ UNCHANGED <<store, now, config, fault, nextId, dev, alerts, netVars, notifVars,
                 lastIndex>>

\* getErrorLogs()
GetErrorLogs ==
  /\ ret' = Ret("getErrorLogs", "", "", Out("data", errorLogs))
  /\ UNCHANGED <<store, now, config, fault, errorLogs, isInitialized, hooks,
                 nextId, dev, alerts, queue, netVars, notifVars, lastIndex>>

\* log.resolve: the entries have no field of that name.
Resolve(log) == IF "resolve" \in DOMAIN log THEN log.resolve ELSE FALSE

\* getUnresolvedErrors(): this.errorLogs.filter(log => !log.resolve)
GetUnresolvedErrors ==
  /\ ret' = Ret("getUnresolvedErrors", "", "",
                Out("data", SelectSeq(errorLogs, LAMBDA log : ~Resolve(log))))
  /\ UNCHANGED <<store, now, config, fault, errorLogs, isInitialized, hooks,
                 nextId, dev, alerts, queue, netVars, notifVars, lastIndex>>

\* markErrorResolved(errorId) up to its await.
MarkErrorResolved(errorId) ==
  IF \A i \in DOMAIN errorLogs : errorLogs[i].id # errorId
  THEN /\ ret' = Done("markErrorResolved")
       /\ UNCHANGED <<store, now, config, fault, errorLogs, isInitialized, hooks,
                      nextId, dev, alerts, queue, netVars, notifVars,
                      lastIndex>>
  ELSE LET logs == [i \in DOMAIN errorLogs |->
                      IF errorLogs[i].id = errorId
                      THEN [errorLogs[i] EXCEPT !.resolved = TRUE]
                      ELSE errorLogs[i]]
           ok == "write" \notin fault
           item == CacheItem(logs, now, now, config.maxAge)
       IN /\ Room
          /\ errorLogs' = logs
          /\ store' = IF ok THEN [store EXCEPT ![ErrorLogsKey] = Stringify(item, 0)]
                      ELSE store
          /\ queue' = Append(queue, Cont("resolveSave", "", ok, errorId, <<>>))
          /\ UNCHANGED <<ret, now, config, fault, isInitialized, hooks, nextId, dev,
                         alerts, netVars, notifVars, lastIndex>>

\* markErrorResolved after `await storageManager.setItem(...)': a failed write
\* was reported by setItem's catch, and the error setItem rethrew leaves
\* markErrorResolved.
ResolveSaved ==
  /\ queue # <<>>
  /\ Head(queue).kind = "resolveSave"
  /\ LET w0 == [World EXCEPT !.q = Tail(queue)]
         w == IF Head(queue).ok THEN w0 ELSE HandleStorageError(w0)
     IN /\ WithinBounds(w)
        /\ Commit(w)
        /\ ret' = Ret("markErrorResolved", "", "",
                      IF Head(queue).ok THEN Out("ok", <<>>)
                      ELSE Throw("Failed to store error_logs"))
  /\ UNCHANGED <<config, fault, isInitialized, hooks, dev, netVars, notifVars,
                 lastIndex>>

\* clearErrorLogs() up to its await.
ClearErrorLogs ==
  LET ok == "remove" \notin fault IN
  /\ Room
  /\ errorLogs' = <<>>
  /\ store' = IF ok THEN [store EXCEPT ![ErrorLogsKey] = Absent] ELSE store
  /\ queue' = Append(queue, Cont("clearDone", "", ok, 0, <<>>))
  /\ UNCHANGED <<ret, now, config, fault, isInitialized, hooks, nextId, dev, alerts,
                 netVars, notifVars, lastIndex>>

\* clearErrorLogs after `await storageManager.removeItem('error_logs')'.
ClearDone ==
  /\ queue # <<>>
  /\ Head(queue).kind = "clearDone"
  /\ LET w0 == [World EXCEPT !.q = Tail(queue)]
         w == IF Head(queue).ok THEN w0 ELSE HandleStorageError(w0)
     IN /\ WithinBounds(w)
        /\ Commit(w)
        /\ ret' = Ret("clearErrorLogs", "", "",
                      IF Head(queue).ok THEN Out("ok", <<>>)
                      ELSE Throw("Failed to remove error_logs"))
  /\ UNCHANGED <<config, fault, isInitialized, hooks, dev, netVars, notifVars,
                 lastIndex>>

\* Logging: every way an entry gets into the log, in either build.
NextErr ==
  \/ \E f \in {{}, {"write"}} : SetFault(f)
  \/ \E severity \in Severities : LogErrorCall(severity)
  \/ HandleNetworkErrorCall
  \/ HandleStorageErrorCall
  \/ HandleComponentError
  \/ HandleValidationError
  \/ \E duration \in {1, 2} : HandlePerformanceIssue(duration, 1)
  \/ \E isFatal \in BOOLEAN : GlobalError(isFatal)
  \/ ConsoleErrorCall
  \/ ConsoleWarnCall
  \/ Initialize
  \/ InitLoaded
  \/ LogSaved

SpecErr == InitAnyBuild /\ [][NextErr]_vars

\* The operations on the log, with calls in progress at the same time.
NextErrOps ==
  \/ \E f \in FaultModes : SetFault(f)
  \/ LogErrorCall("medium")
  \/ Initialize
  \/ InitLoaded
  \/ GetErrorLogs
  \/ GetUnresolvedErrors
  \/ \E errorId \in 1..MaxIds : MarkErrorResolved(errorId)
  \/ ResolveSaved
  \/ ClearErrorLogs
  \/ ClearDone
  \/ LogSaved

SpecErrOps == Init /\ [][NextErrOps]_vars

(***************************************************************************)
(* NetworkManager.  One makeRequest call is followed at a time: req holds  *)
(* its locals (finalConfig.retries, finalConfig.retryDelay, attempt) and   *)
(* what it has done so far: attempts issued, delays taken, the outcome of  *)
(* every attempt, and the timeout timers that are armed.                   *)
(***************************************************************************)
\* get, post, put, delete and patch all go through makeRequest and differ in
\* the request options only; a verb without and a verb with a body stand
\* for them.
Verbs == {"get", "post"}

\* How an attempt can end: a response with the status and a JSON body, a
\* response with status 200 whose body is no JSON ("200badJson"), the abort
\* of the timeout ("abort"), or a transport error thrown by fetch ("error").
Outcomes == {"200", "200badJson", "500", "401", "403", "abort", "error"}

\* error.status of the error an attempt ended with: the status of a response
\* that is not ok; the errors thrown by fetch and by response.json() have
\* none.
Status(outcome) ==
  IF outcome \in {"abort", "error", "200badJson"} THEN "undefined" ELSE outcome

\* A URL is the sequence of its parts: the scheme, when it has one, comes
\* first.  BaseUrl is what setBaseUrl was given.
BaseUrl == <<"http", "api">>

Urls == {<<"x">>, <<"http", "h", "x">>}

\* url.startsWith('http')
StartsWithHttp(url) == url # <<>> /\ Head(url) = "http"

\* url.startsWith('http') ? url : `${this.baseUrl}${url}`
FullUrl(url) == IF StartsWithHttp(url) THEN url ELSE BaseUrl \o url

\* { ...base, ...partial }
Merge(base, partial) ==
  [f \in DOMAIN base |-> IF f \in DOMAIN partial THEN partial[f] ELSE base[f]]

\* The loop condition with the last attempt cut off.
LoopStopsEarly(attempt, retries) == attempt < retries

\* for (...; attempt <= finalConfig.retries; ...)
LoopContinues(attempt, retries) == attempt <= retries

\* The check with 403 left out.
NonRetryableWithout403(outcome) == outcome = "abort" \/ Status(outcome) = "401"

\* error.name === 'AbortError' || error.status === 401 || error.status === 403
NonRetryable(outcome) ==
  outcome = "abort" \/ Status(outcome) = "401" \/ Status(outcome) = "403"

\* attempt < finalConfig.retries
AttemptsRemain(attempt, retries) == attempt < retries

\* The next pass of the loop begins: a timer is armed and fetch is called.
Fetch(r) ==
  [r EXCEPT !.pc = "fetch", !.attempts = @ + 1, !.timers = @ + 1]

\* After the loop: errorHandler.handleNetworkError(lastError, fullUrl);
\* throw lastError.  status is lastError.status, "null" when there is no
\* lastError; the context of the report is r.fullUrl.
Fail(r, status) ==
  LET w == HandleNetworkError(World) IN
  /\ WithinBounds(w)
  /\ Commit(w)
  /\ req' = [r EXCEPT !.pc = "done"]
  /\ ret' = Ret(r.verb, "", status, Throw("Network request failed"))
  /\ UNCHANGED <<config, fault, isInitialized, hooks, dev, defaultConfig, notifVars,
                 lastIndex>>

\* get/post/put/delete/patch(url, ..., config): makeRequest up to the first
\* await fetch(...).
Request(verb, callConfig) ==
  \E url \in Urls :
  LET finalConfig == Merge(defaultConfig, callConfig)
      r == [NoRequest EXCEPT !.verb = verb, !.retries = finalConfig.retries,
                             !.retryDelay = finalConfig.retryDelay,
                             !.url = url, !.fullUrl = FullUrl(url)]
  IN /\ req.pc \in {"idle", "done"}
     /\ IF LoopContinues(0, r.retries)
        THEN /\ req' = Fetch(r)
             /\ UNCHANGED <<store, now, config, fault, errorLogs, isInitialized,
                            hooks, nextId, dev, alerts, queue, ret, defaultConfig,
                            notifVars, lastIndex>>
        ELSE Fail(r, "null")

\* setDefaultConfig(config)
SetDefaultConfig(partial) ==
  /\ defaultConfig' = Merge(defaultConfig, partial)
  /\ defaultConfig' # defaultConfig
  /\ UNCHANGED <<store, now, config, fault, errorLogs, isInitialized, hooks,
                 nextId, dev, alerts, queue, ret, req, notifVars, lastIndex>>

\* The awaited fetch settles, and so does the response.json() awaited after
\* it.  clearTimeout runs when fetch resolved with a response; the timer is
\* gone too when it fired (the abort); it stays armed when fetch threw a
\* transport error.  A response.json() that rejects on an ok response is
\* caught like any other error of the attempt.
Respond(outcome) ==
  LET r == [req EXCEPT !.responses = Append(@, outcome),
                       !.timers = IF outcome = "error" THEN @ ELSE @ - 1]
  IN /\ req.pc = "fetch"
     /\ IF outcome = "200"
        THEN /\ req' = [r EXCEPT !.pc = "done"]
             /\ ret' = Ret(r.verb, "", "200", Out("data", <<>>))
             /\ UNCHANGED <<store, now, config, fault, errorLogs, isInitialized,
                            hooks, nextId, dev, alerts, queue, defaultConfig,
                            notifVars, lastIndex>>
        ELSE IF NonRetryable(outcome)
        THEN Fail(r, Status(outcome))
        ELSE IF AttemptsRemain(r.attempt, r.retries)
        THEN /\ req' = [r EXCEPT !.pc = "delay", !.delays = Append(@, r.retryDelay)]
             /\ UNCHANGED <<store, now, config, fault, errorLogs, isInitialized,
                            hooks, nextId, dev, alerts, queue, ret, defaultConfig,
                            notifVars, lastIndex>>
        ELSE IF LoopContinues(r.attempt + 1, r.retries)
        THEN /\ req' = Fetch([r EXCEPT !.attempt = @ + 1])
             /\ UNCHANGED <<store, now, config, fault, errorLogs, isInitialized,
                            hooks, nextId, dev, alerts, queue, ret, defaultConfig,
                            notifVars, lastIndex>>
        ELSE Fail([r EXCEPT !.attempt = @ + 1], Status(outcome))

\* The timer of delay(retryDelay) fires: attempt++ and the loop condition.
DelayDone ==
  LET r == [req EXCEPT !.attempt = @ + 1] IN
  /\ req.pc = "delay"
  /\ IF LoopContinues(r.attempt, r.retries)
     THEN /\ req' = Fetch(r)
          /\ UNCHANGED <<store, now, config, fault, errorLogs, isInitialized,
                         hooks, nextId, dev, alerts, queue, ret, defaultConfig,
                         notifVars, lastIndex>>
     ELSE Fail(r, Status(r.responses[Len(r.responses)]))

\* uploadFile(url, file, onProgress, config) up to the return of its promise.
\* xhr says whether the AbortController and the XMLHttpRequest can be
\* constructed; otherwise the constructor throws inside the try block.
UploadFile(xhr) ==
  LET finalConfig == Merge(defaultConfig, <<>>)
      r == [NoRequest EXCEPT !.verb = "uploadFile", !.retries = finalConfig.retries,
                             !.retryDelay = finalConfig.retryDelay]
  IN /\ req.pc \in {"idle", "done"}
     /\ IF xhr
        THEN /\ req' = [r EXCEPT !.pc = "upload", !.attempts = 1, !.timers = 1]
             /\ UNCHANGED <<store, now, config, fault, errorLogs, isInitialized,
                            hooks, nextId, dev, alerts, queue, ret, defaultConfig,
                            notifVars, lastIndex>>
        ELSE Fail(r, "undefined")

\* xhr.status as the rejection carries it: 0 after a transport error, none in
\* the rejection of an abort.
UploadStatus(outcome) ==
  CASE outcome = "error" -> "0"
    [] outcome = "abort" -> "undefined"
    [] outcome = "200badJson" -> "200"
    [] OTHER -> outcome

\* A listener of the XMLHttpRequest runs (load, error or abort): it clears
\* the timer and settles the promise uploadFile returned.  The promise was
\* returned without await, so its rejection does not pass through the catch
\* block of uploadFile.
UploadSettles(outcome) ==
  LET r == [req EXCEPT !.pc = "done", !.responses = <<outcome>>, !.timers = @ - 1]
  IN /\ req.pc = "upload"
     /\ req' = r
     /\ ret' = Ret("uploadFile", "", UploadStatus(outcome),
                   IF outcome = "200" THEN Out("data", <<>>)
                   ELSE Throw("Upload failed"))
     /\ UNCHANGED <<store, now, config, fault, errorLogs, isInitialized, hooks,
                    nextId, dev, alerts, queue, defaultConfig, notifVars,
                    lastIndex>>

Retries == -1..MaxRetries

NextNet ==
  \/ \E verb \in Verbs : Request(verb, <<>>)
  \/ \E verb \in Verbs, retries \in Retries : Request(verb, [retries |-> retries])
  \/ \E retries \in {0, MaxRetries} : SetDefaultConfig([retries |-> retries])
  \/ \E retryDelay \in {500} : SetDefaultConfig([retryDelay |-> retryDelay])
  \/ \E outcome \in Outcomes : Respond(outcome)
  \/ DelayDone
  \/ \E xhr \in BOOLEAN : UploadFile(xhr)
  \/ \E outcome \in Outcomes : UploadSettles(outcome)
  \/ LogSaved

SpecNet == Init /\ [][NextNet]_vars

(***************************************************************************)
(* NotificationManager.  The module creates the singleton when it is       *)
(* loaded, and the constructor starts initialize(): loadNotifications()    *)
(* and loadPreferences() have both issued their getItem and are suspended  *)
(* on it, over the store the previous session left.                        *)
(***************************************************************************)
\* An entry the previous session wrote with setItem under the default maxAge.
Saved(data) ==
  [kind |-> "item", data |-> data, timestamp |-> 0, expiresAt |-> DefaultMaxAge,
   size |-> 0, orig |-> data, age |-> DefaultMaxAge]

SavedPreferences ==
  {Absent} \cup {Saved(<<p>>) : p \in [NotificationTypes -> BOOLEAN]}

SavedNotifications ==
  {Absent, Saved(<<[id |-> 0, type |-> "like", read |-> FALSE]>>)}

\* What getItem gave for an entry of the initial store.
Cached(s) == IF s.kind = "item" THEN Out("data", s.data) ELSE Out("null", <<>>)

InitNotif ==
  /\ \E n \in SavedNotifications, p \in SavedPreferences :
       /\ store = [k \in AllKeys |->
                     IF k = NotificationsKey THEN n
                     ELSE IF k = PreferencesKey THEN p ELSE Absent]
       /\ queue = << Cont("loadNotifications", "", TRUE, 0, Cached(n)),
                     Cont("loadPreferences", "", TRUE, 0, Cached(p)) >>
  /\ now = 1
  /\ config = [maxAge |-> DefaultMaxAge, maxSize |-> DefaultMaxSize]
  /\ fault = {}
  /\ errorLogs = <<>>
  /\ isInitialized = FALSE
  /\ hooks = 0
  /\ nextId = 1
  /\ dev = FALSE
  /\ alerts = 0
  /\ ret = NoRet
  /\ defaultConfig = [retries |-> DefaultRetries, retryDelay |-> DefaultRetryDelay]
  /\ req = NoRequest
  /\ notifications = <<>>
  /\ preferences = [type \in NotificationTypes |-> TRUE]
  /\ shown = {}
  /\ lastIndex = [mention |-> 0, hashtag |-> 0]

\* loadNotifications() after its await:
\* if (cached && Array.isArray(cached)) this.notifications = cached
LoadNotifications ==
  /\ queue # <<>>
  /\ Head(queue).kind = "loadNotifications"
  /\ notifications' = IF Head(queue).val.tag = "data" THEN Head(queue).val.data
                      ELSE notifications
  /\ queue' = Tail(queue)
  /\ UNCHANGED <<store, now, config, fault, errorLogs, isInitialized, hooks,
                 nextId, dev, alerts, ret, netVars, preferences, shown,
                 lastIndex>>

\* loadPreferences() after its await: if (cached && typeof cached === 'object')
\* this.preferences = { ...this.preferences, ...cached }
LoadPreferences ==
  /\ queue # <<>>
  /\ Head(queue).kind = "loadPreferences"
  /\ preferences' = IF Head(queue).val.tag = "data"
                    THEN Merge(preferences, Head(queue).val.data[1])
                    ELSE preferences
  /\ queue' = Tail(queue)
  /\ UNCHANGED <<store, now, config, fault, errorLogs, isInitialized, hooks,
                 nextId, dev, alerts, ret, netVars, notifications, shown,
                 lastIndex>>

\* The cut taking the wrong end of the list: slice(1) for slice(0, 100).
TruncateNotificationsNewest(list) ==
  IF Len(list) > MaxNotifications THEN SubSeq(list, 2, Len(list)) ELSE list

\* if (this.notifications.length > 100)
\*   this.notifications = this.notifications.slice(0, 100)
TruncateNotifications(list) ==
  IF Len(list) > MaxNotifications THEN Take(list, MaxNotifications) ELSE list

\* The id createNotification returns: '' is the empty sequence here.
EmptyId == Out("data", <<>>)

\* createNotification(type, title, message) up to its await; valid says
\* whether title and message are non-empty.  With invalid parameters the
\* catch block logs and '' is returned; for a disabled type '' is returned;
\* otherwise the notification is put at the head, the list is cut to the
\* cap and saveNotifications() issues the write.
CreateNotification(type, valid) ==
  IF ~valid
  THEN LET w == LogError(World, "medium") IN
       /\ Room
       /\ WithinBounds(w)
       /\ Commit(w)
       /\ ret' = Ret("createNotification", "", type, EmptyId)
       /\ UNCHANGED <<config, fault, isInitialized, hooks, dev, netVars, notifVars,
                      lastIndex>>
  ELSE IF ~preferences[type]
  THEN /\ ret' = Ret("createNotification", "", type, EmptyId)
       /\ UNCHANGED <<store, now, config, fault, errorLogs, isInitialized, hooks,
                      nextId, dev, alerts, queue, netVars, notifVars,
                      lastIndex>>
  ELSE LET list == TruncateNotifications(
                     <<[id |-> nextId, type |-> type, read |-> FALSE]>>
                       \o notifications)
           ok == "write" \notin fault
           item == CacheItem(list, now, now, config.maxAge)
       IN /\ Room
          /\ nextId <= MaxIds
          /\ notifications' = list
          /\ nextId' = nextId + 1
          /\ store' = IF ok
                      THEN [store EXCEPT ![NotificationsKey] = Stringify(item, 0)]
                      ELSE store
          /\ queue' = Append(queue, Cont("notificationSave", type, ok, nextId, <<>>))
          /\ UNCHANGED <<now, config, fault, errorLogs, isInitialized, hooks, dev,
                         alerts, ret, netVars, preferences, shown, lastIndex>>

\* createLikeNotification(userId, postId)
CreateLikeNotification == CreateNotification("like", TRUE)

\* createNotification after `await this.saveNotifications()': a failed write
\* was reported by setItem's catch and is logged by the catch of
\* saveNotifications; then showInAppNotification and the id is returned.
NotificationSaved ==
  /\ queue # <<>>
  /\ Head(queue).kind = "notificationSave"
  /\ LET c == Head(queue)
         w0 == [World EXCEPT !.q = Tail(queue)]
         w == IF c.ok THEN w0 ELSE LogError(HandleStorageError(w0), "medium")
     IN /\ WithinBounds(w)
        /\ Commit(w)
        /\ shown' = shown \cup {c.id}
        /\ ret' = Ret("createNotification", "", c.severity,
                      Out("data", <<[id |-> c.id]>>))
  /\ UNCHANGED <<config, fault, isInitialized, hooks, dev, netVars, notifications,
                 preferences, lastIndex>>

\* updatePreferences(preferences) up to its await.
UpdatePreferences(partial) ==
  LET merged == Merge(preferences, partial)
      ok == "write" \notin fault
      item == CacheItem(<<merged>>, now, now, config.maxAge)
  IN /\ Room
     /\ preferences' = merged
     /\ store' = IF ok THEN [store EXCEPT ![PreferencesKey] = Stringify(item, 0)]
                 ELSE store
     /\ queue' = Append(queue, Cont("preferencesSave", "", ok, 0, <<>>))
     /\ UNCHANGED <<now, config, fault, errorLogs, isInitialized, hooks, nextId,
                    dev, alerts, ret, netVars, notifications, shown,
                    lastIndex>>

\* updatePreferences after `await this.savePreferences()'.
PreferencesSaved ==
  /\ queue # <<>>
  /\ Head(queue).kind = "preferencesSave"
  /\ LET w0 == [World EXCEPT !.q = Tail(queue)]
         w == IF Head(queue).ok THEN w0 ELSE LogError(HandleStorageError(w0), "low")
     IN /\ WithinBounds(w)
        /\ Commit(w)
        /\ ret' = Done("updatePreferences")
  /\ UNCHANGED <<config, fault, isInitialized, hooks, dev, netVars, notifVars,
                 lastIndex>>

\* notification.read = true on the entry find(n => n.id === id) gives: the
\* first one with the id.
MarkRead(list, id) ==
  [i \in DOMAIN list |->
     IF list[i].id = id /\ \A j \in 1..(i - 1) : list[j].id # id
     THEN [list[i] EXCEPT !.read = TRUE]
     ELSE list[i]]

\* The filter with the test the wrong way round.
Only(list, id) == SelectSeq(list, LAMBDA n : n.id = id)

\* this.notifications.filter(n => n.id !== notificationId)
Without(list, id) == SelectSeq(list, LAMBDA n : n.id # id)

\* The rest of a mutation, from the assignment of the list to the await in
\* saveNotifications(): storageManager.setItem('notifications', list) issues
\* its write.
SaveNotifications(list, op, id) ==
  LET ok == "write" \notin fault
      item == CacheItem(list, now, now, config.maxAge)
  IN /\ Room
     /\ notifications' = list
     /\ store' = IF ok THEN [store EXCEPT ![NotificationsKey] = Stringify(item, 0)]
                 ELSE store
     /\ queue' = Append(queue, Cont("inboxSave", op, ok, id, <<>>))
     /\ UNCHANGED <<now, config, fault, errorLogs, isInitialized, hooks, nextId,
                    dev, alerts, ret, netVars, preferences, shown, lastIndex>>

\* markAsRead(notificationId) up to its await; without an entry of that id
\* nothing is saved.
MarkAsRead(id) ==
  IF \A i \in DOMAIN notifications : notifications[i].id # id
  THEN /\ ret' = Done("markAsRead")
       /\ UNCHANGED <<store, now, config, fault, errorLogs, isInitialized, hooks,
                      nextId, dev, alerts, queue, netVars, notifVars,
                      lastIndex>>
  ELSE SaveNotifications(MarkRead(notifications, id), "markAsRead", id)

\* markAllAsRead() up to its await.
MarkAllAsRead ==
  SaveNotifications([i \in DOMAIN notifications |->
                       [notifications[i] EXCEPT !.read = TRUE]],
                    "markAllAsRead", 0)

\* deleteNotification(notificationId) up to its await.
DeleteNotification(id) ==
  SaveNotifications(Without(notifications, id), "deleteNotification", id)

\* clearAllNotifications() up to its await.
ClearAllNotifications == SaveNotifications(<<>>, "clearAllNotifications", 0)

\* A mutation after `await this.saveNotifications()': a failed write was
\* reported by setItem's catch and is logged by the catch of
\* saveNotifications, which swallows it.
InboxSaved ==
  /\ queue # <<>>
  /\ Head(queue).kind = "inboxSave"
  /\ LET c == Head(queue)
         w0 == [World EXCEPT !.q = Tail(queue)]
         w == IF c.ok THEN w0 ELSE LogError(HandleStorageError(w0), "medium")
     IN /\ WithinBounds(w)
        /\ Commit(w)
        /\ ret' = Done(c.severity)
  /\ UNCHANGED <<config, fault, isInitialized, hooks, dev, netVars, notifVars,
                 lastIndex>>

\* getHealthStatus(), from its call to its return, with no other call in
\* between: the two counts are read, createSystemNotification puts the test
\* notification at the head, cuts the list to the cap, saves and presents
\* it, and deleteNotification(testId) filters it out and saves again.  Each
\* save that fails is reported by setItem's catch and logged by the catch of
\* saveNotifications.  With the type 'system' disabled the id is '' and the
\* status is unhealthy.
GetHealthStatus ==
  LET health == [isHealthy |-> preferences["system"],
                 notificationCount |-> Len(notifications),
                 unreadCount |-> Len(SelectSeq(notifications, LAMBDA n : ~n.read))]
      created == TruncateNotifications(
                   <<[id |-> nextId, type |-> "system", read |-> FALSE]>>
                     \o notifications)
      list == Without(created, nextId)
      item == CacheItem(list, now, now, config.maxAge)
      w0 == [World EXCEPT !.nid = nextId + 1]
      w == IF "write" \notin fault
           THEN [w0 EXCEPT !.st = [w0.st EXCEPT ![NotificationsKey] = Stringify(item, 0)]]
           ELSE LogError(HandleStorageError(
                  LogError(HandleStorageError(w0), "medium")), "medium")
  IN /\ Quiet
     /\ ret' = Ret("getHealthStatus", "", "", Out("data", <<health>>))
     /\ IF preferences["system"]
        THEN /\ WithinBounds(w)
             /\ Commit(w)
             /\ notifications' = list
             /\ shown' = shown \cup {nextId}
             /\ UNCHANGED <<config, fault, isInitialized, hooks, dev, netVars,
                            preferences, lastIndex>>
        ELSE UNCHANGED <<store, now, config, fault, errorLogs, isInitialized,
                         hooks, nextId, dev, alerts, queue, netVars, notifVars,
                         lastIndex>>

NextNotif ==
  \/ \E f \in {{}, {"write"}} : SetFault(f)
  \/ LoadNotifications
  \/ LoadPreferences
  \/ \E type \in NotificationTypes, valid \in BOOLEAN : CreateNotification(type, valid)
  \/ CreateLikeNotification
  \/ NotificationSaved
  \/ \E type \in NotificationTypes, enabled \in BOOLEAN :
       UpdatePreferences([t \in {type} |-> enabled])
  \/ PreferencesSaved
  \/ LogSaved

SpecNotif == InitNotif /\ [][NextNotif]_vars

\* The inbox: notifications are created, and marked, deleted and cleared
\* by calls made when no other call is in progress.
NextInbox ==
  \/ \E f \in {{}, {"write"}} : SetFault(f)
  \/ LoadNotifications
  \/ LoadPreferences
  \/ CreateLikeNotification
  \/ NotificationSaved
  \/ \E id \in 0..MaxIds : Quiet /\ MarkAsRead(id)
  \/ Quiet /\ MarkAllAsRead
  \/ \E id \in 0..MaxIds : Quiet /\ DeleteNotification(id)
  \/ Quiet /\ ClearAllNotifications
  \/ InboxSaved
  \/ GetHealthStatus
  \/ LogSaved

\* The previous session saved no preferences.
InitInbox == InitNotif /\ store[PreferencesKey] = Absent

SpecInbox == InitInbox /\ [][NextInbox]_vars

(***************************************************************************)
(* TextParser.  A text is the sequence of its characters; a position is    *)
(* counted from 0 as in the code, so the character at position i is        *)
(* text[i + 1].  The two regular expressions are static and global: each   *)
(* keeps its lastIndex from one call to the next.                          *)
(***************************************************************************)
\* '@', '#', a character that \w matches and one that it does not.
Chars == {"@", "#", "a", " "}

Texts == UNION {[1..n -> Chars] : n \in 0..MaxLen}

\* \w
WordChar(ch) == ch = "a"

\* The result of exec when nothing matches: null, and lastIndex is reset.
NoMatch ==
  [found |-> FALSE, type |-> "", index |-> 0, lastIndex |-> 0,
   content |-> <<>>, value |-> <<>>]

\* regex.exec(text) for /@(\w+)/g and /#(\w+)/g, sigil being '@' or '#':
\* the search starts at lastIndex (from) and takes the first position that
\* holds the sigil followed by a word character; the match runs on to the
\* last word character in a row, and its end is the new lastIndex.
Exec(sigil, text, from) ==
  LET starts == {i \in from..(Len(text) - 2) :
                   text[i + 1] = sigil /\ WordChar(text[i + 2])}
  IN IF starts = {} THEN NoMatch
     ELSE LET i == CHOOSE j \in starts : \A k \in starts : j <= k
              end == CHOOSE e \in (i + 2)..Len(text) :
                       /\ \A j \in (i + 2)..e : WordChar(text[j])
                       /\ e = Len(text) \/ ~WordChar(text[e + 1])
          IN [found |-> TRUE,
              type |-> IF sigil = "@" THEN "mention" ELSE "hashtag",
              index |-> i, lastIndex |-> end,
              content |-> SubSeq(text, i + 1, end),
              value |-> SubSeq(text, i + 2, end)]

\* while ((match = regex.exec(text)) !== null) matches.push(match): the loop
\* ends on the exec that finds nothing, which leaves lastIndex at 0.
RECURSIVE ExecAll(_, _, _)
ExecAll(sigil, text, from) ==
  LET match == Exec(sigil, text, from)
  IN IF match.found THEN <<match>> \o ExecAll(sigil, text, match.lastIndex)
     ELSE <<>>

\* matches.sort((a, b) => a.index - b.index): no two matches begin at the
\* same position.
RECURSIVE SortMatches(_)
SortMatches(matches) ==
  IF matches = <<>> THEN <<>>
  ELSE LET first == CHOOSE i \in DOMAIN matches :
                      \A j \in DOMAIN matches : matches[i].index <= matches[j].index
       IN <<matches[first]>>
            \o SortMatches(SubSeq(matches, 1, first - 1)
                             \o SubSeq(matches, first + 1, Len(matches)))

TextSegment(text, from, to) ==
  [type |-> "text", content |-> SubSeq(text, from + 1, to), value |-> <<>>]

\* The loop that builds the segments of parseText, and the rest of the text
\* after the last match; last is the local lastIndex of parseText.
RECURSIVE Segments(_, _, _)
Segments(text, matches, last) ==
  IF matches = <<>>
  THEN IF last < Len(text) THEN <<TextSegment(text, last, Len(text))>> ELSE <<>>
  ELSE LET match == Head(matches)
       IN (IF match.index > last
           THEN <<TextSegment(text, last, match.index)>> ELSE <<>>)
          \o <<[type |-> match.type, content |-> match.content,
                value |-> match.value]>>
          \o Segments(text, Tail(matches), match.index + Len(match.content))

\* [...new Set(values)]: the first occurrence of every value, in order.
RECURSIVE Unique(_)
Unique(values) ==
  IF values = <<>> THEN <<>>
  ELSE LET front == SubSeq(values, 1, Len(values) - 1)
           last == values[Len(values)]
       IN IF \E i \in DOMAIN front : front[i] = last
          THEN Unique(front) ELSE Append(Unique(front), last)

\* parseText(text), with the lastIndex the two expressions hold when it is
\* called.
TPParseText(text, li) ==
  Segments(text,
           SortMatches(ExecAll("@", text, li.mention)
                         \o ExecAll("#", text, li.hashtag)),
           0)

\* extractMentions(text) and extractHashtags(text)
TPExtract(sigil, text, from) ==
  LET matches == ExecAll(sigil, text, from)
  IN Unique([i \in DOMAIN matches |-> matches[i].value])

\* hasSpecialContent(text): mentionRegex.test(text) || hashtagRegex.test(text).
\* test is exec: it moves lastIndex behind the match it finds, and the
\* second test is not made when the first one finds a mention.
TPHasSpecialContent(text, li) ==
  LET mention == Exec("@", text, li.mention)
      hashtag == Exec("#", text, li.hashtag)
  IN IF mention.found
     THEN [result |-> TRUE,
           lastIndex |-> [li EXCEPT !.mention = mention.lastIndex]]
     ELSE [result |-> hashtag.found,
           lastIndex |-> [mention |-> 0, hashtag |-> hashtag.lastIndex]]

\* What a call of TextParser returned for the text: a list of segments is
\* recorded as it is, a list of strings with a record for every string, and
\* a boolean as a list of one record.
Parsed(op, text, result) ==
  Ret(op, "", "", Out("data", <<[text |-> text, result |-> result]>>))

Strings(values) ==
  [i \in DOMAIN values |-> [type |-> "string", content |-> values[i], value |-> <<>>]]

Boolean(b) ==
  <<[type |-> IF b THEN "true" ELSE "false", content |-> <<>>, value |-> <<>>]>>

ParseText(text) ==
  /\ ret' = Parsed("parseText", text, TPParseText(text, lastIndex))
  /\ lastIndex' = [mention |-> 0, hashtag |-> 0]
  /\ UNCHANGED <<store, now, config, fault, errorLogs, isInitialized, hooks,
                 nextId, dev, alerts, queue, netVars, notifVars>>

ExtractMentions(text) ==
  /\ ret' = Parsed("extractMentions", text,
                   Strings(TPExtract("@", text, lastIndex.mention)))
  /\ lastIndex' = [lastIndex EXCEPT !.mention = 0]
  /\ UNCHANGED <<store, now, config, fault, errorLogs, isInitialized, hooks,
                 nextId, dev, alerts, queue, netVars, notifVars>>

ExtractHashtags(text) ==
  /\ ret' = Parsed("extractHashtags", text,
                   Strings(TPExtract("#", text, lastIndex.hashtag)))
  /\ lastIndex' = [lastIndex EXCEPT !.hashtag = 0]
  /\ UNCHANGED <<store, now, config, fault, errorLogs, isInitialized, hooks,
                 nextId, dev, alerts, queue, netVars, notifVars>>

HasSpecialContent(text) ==
  LET test == TPHasSpecialContent(text, lastIndex) IN
  /\ ret' = Parsed("hasSpecialContent", text, Boolean(test.result))
  /\ lastIndex' = test.lastIndex
  /\ UNCHANGED <<store, now, config, fault, errorLogs, isInitialized, hooks,
                 nextId, dev, alerts, queue, netVars, notifVars>>

NextParser ==
  \/ \E text \in Texts : ParseText(text)
  \/ \E text \in Texts : ExtractMentions(text)
  \/ \E text \in Texts : ExtractHashtags(text)
  \/ \E text \in Texts : HasSpecialContent(text)

SpecParser == Init /\ [][NextParser]_vars

(***************************************************************************)
(* Properties of StorageManager.                                           *)
(***************************************************************************)
\* C4: for an item stored by setItem under a configured maxAge, and reads and
\* removals that AsyncStorage serves, a getItem later than timestamp + maxAge
\* returns null and removes the entry, and a getItem at or before that time
\* returns the stored data and leaves the entry in place.
C4_Expiry ==
  [][\A key \in UserKeys :
       (store[key].kind = "item" /\ store[key].age # 0 /\ fault = {} /\ GetItem(key))
         => IF now > store[key].timestamp + store[key].age
            THEN ret'.tag = "null" /\ store'[key] = Absent
            ELSE /\ ret'.tag = "data" /\ ret'.data = store[key].data
                 /\ store'[key] = store[key]]_vars

\* C5, as claimed: a setItem whose serialized size exceeds the limit throws
\* and leaves the whole underlying store as it was.
C5_SizeRejectionAsClaimed ==
  [][\A key \in UserKeys, v \in UserValues, d \in {0, 1} :
       (ScalarSize(v) > EffectiveMaxSize /\ ret'.key = key /\ SetItem(key, v, d))
         => ret'.tag = "throw" /\ store' = store]_vars

\* C5, amended: such a setItem throws and leaves every entry other than
\* 'error_logs' as it was (the rejection is reported through
\* handleStorageError, whose logError rewrites 'error_logs').
C5_SizeRejection ==
  [][\A key \in UserKeys, v \in UserValues, d \in {0, 1} :
       (ScalarSize(v) > EffectiveMaxSize /\ ret'.key = key /\ SetItem(key, v, d))
         => /\ ret'.tag = "throw"
            /\ \A k \in AllKeys \ {ErrorLogsKey} : store'[k] = store[k]]_vars

\* A setItem has been rejected for its size while the key held an entry.
C5_Witness ==
  /\ ret.op = "setItem"
  /\ ret.key = "k1"
  /\ ret.msg = "Data too large"
  /\ store["k1"].kind = "item"

\* C6: a getItem that AsyncStorage serves, on a key whose entry is the one
\* the latest successful setItem(key, v) wrote with a JSON-serializable v and
\* whose expiry has not passed, returns v; and a successful setItem(key, v)
\* makes its value the entry of the key.
C6_RoundTrip ==
  [][\A key \in UserKeys :
       /\ (/\ store[key].kind = "item"
           /\ \A i \in DOMAIN store[key].orig : JsonSerializable(store[key].orig[i].v)
           /\ "read" \notin fault
           /\ (store[key].expiresAt = 0 \/ now <= store[key].expiresAt)
           /\ GetItem(key))
            => ret'.tag = "data" /\ ret'.data = store[key].orig
       /\ \A v \in UserValues, d \in {0, 1} :
            (ret'.tag = "ok" /\ ret'.key = key /\ SetItem(key, v, d))
              => store'[key].kind = "item" /\ store'[key].orig = Value(v)]_vars

\* A value has come back from getItem.
C6_Witness ==
  /\ ret.op = "getItem"
  /\ ret.key = "k1"
  /\ ret.tag = "data"
  /\ ret.data = Value("bb")

\* C14, as claimed: with a store that serves its requests, getItem on a key
\* whose string does not parse returns null, removes the entry, and leaves
\* every other key of the store as it was.
C14_SelfHealingAsClaimed ==
  [][\A key \in UserKeys :
       (store[key].kind = "garbage" /\ fault = {} /\ GetItem(key))
         => /\ ret'.tag = "null"
            /\ store'[key] = Absent
            /\ \A k \in AllKeys \ {key} : store'[k] = store[k]]_vars

\* C14, amended: getItem on a key whose string does not parse returns null
\* without throwing; the entry is removed unless AsyncStorage fails the
\* removal, and then it stays; every key other than this one and
\* 'error_logs' (rewritten by the report of the failure) is left as it was.
C14_SelfHealing ==
  [][\A key \in UserKeys :
       (store[key].kind = "garbage" /\ GetItem(key))
         => /\ ret'.tag = "null"
            /\ store'[key] = IF "remove" \in fault THEN store[key] ELSE Absent
            /\ \A k \in AllKeys \ {key, ErrorLogsKey} : store'[k] = store[k]]_vars

\* A getItem on a key whose string does not parse has returned null, the
\* entry is gone, and the report of the failure is in the persisted log.
C14_Witness ==
  /\ ret.op = "getItem"
  /\ ret.key = "k1"
  /\ ret.arg = "garbage"
  /\ ret.tag = "null"
  /\ store["k1"] = Absent
  /\ errorLogs # <<>>
  /\ store[ErrorLogsKey].kind = "item"
  /\ store[ErrorLogsKey].data = errorLogs

\* The failure has been reported to ErrorHandler: handleStorageError has put
\* its entry at the head of the log.
Reported ==
  /\ nextId' = nextId + 1
  /\ errorLogs'[1] = [id |-> nextId, severity |-> "medium", resolved |-> FALSE]

\* C15, as claimed: when AsyncStorage fails, getAllKeys returns the empty
\* list, multiGet(keys) one [key, null] pair per key, and multiSet completes
\* without throwing; each failure is reported.
C15_PassThroughAsClaimed ==
  [][/\ (GetAllKeys /\ "read" \in fault)
          => ret'.tag = "data" /\ ret'.data = <<>> /\ Reported
     /\ \A keys \in KeyLists :
          (MultiGet(keys) /\ "read" \in fault)
            => /\ ret'.tag = "data"
               /\ ret'.data = [i \in DOMAIN keys |-> [key |-> keys[i], value |-> "null"]]
               /\ Reported
     /\ \A key \in UserKeys, string \in {RawJson, Garbage} :
          (MultiSet(key, string) /\ "write" \in fault)
            => ret'.tag # "throw" /\ Reported]_vars

\* C15, amended: as claimed for getAllKeys and multiGet; a multiSet that
\* AsyncStorage fails is reported and then throws to the caller, and writes
\* nothing.
C15_PassThrough ==
  [][/\ (GetAllKeys /\ "read" \in fault)
          => ret'.tag = "data" /\ ret'.data = <<>> /\ Reported
     /\ \A keys \in KeyLists :
          (MultiGet(keys) /\ "read" \in fault)
            => /\ ret'.tag = "data"
               /\ ret'.data = [i \in DOMAIN keys |-> [key |-> keys[i], value |-> "null"]]
               /\ Reported
     /\ \A key \in UserKeys, string \in {RawJson, Garbage} :
          (MultiSet(key, string) /\ "write" \in fault)
            => /\ ret'.tag = "throw"
               /\ ret'.msg = "AsyncStorage failure"
               /\ Reported
               /\ store'[key] = store[key]]_vars

\* multiGet has answered [key, null] for two keys of which one holds a
\* string, while AsyncStorage fails its reads.
C15_Witness ==
  /\ ret.op = "multiGet"
  /\ ret.data = <<[key |-> "k2", value |-> "null"], [key |-> "k1", value |-> "null"]>>
  /\ "read" \in fault
  /\ store["k1"].kind = "item"
  /\ errorLogs # <<>>

\* C8: a clearOldCache that AsyncStorage serves deletes nothing when the
\* total size is within the limit; otherwise it deletes a CacheItem entry
\* only if every CacheItem entry with a strictly older timestamp is deleted
\* too, and it stops once the total is within the limit.
C8_OldestFirst ==
  [][(ClearOldCache /\ fault = {})
       => /\ TotalSize(store) <= EffectiveMaxSize => store' = store
          /\ \A a, b \in AllKeys :
               (/\ store[a].kind = "item" /\ store[b].kind = "item"
                /\ store[b].timestamp < store[a].timestamp
                /\ store'[a] = Absent)
                 => store'[b] = Absent]_vars

\* C23: cleanupExpiredCache never throws, and when the store does not fail
\* it removes exactly the entries whose parsed expiresAt is earlier than the
\* time at which the sweep started: an entry that has not expired, that has
\* no expiresAt or that does not parse is left as it was.
C23_ExpirySweep ==
  [][CleanupExpiredCache
       => /\ ret'.tag = "ok"
          /\ fault = {}
               => \A key \in DOMAIN store :
                    store'[key] = IF /\ store[key].kind \in {"item", "json"}
                                     /\ store[key].expiresAt # 0
                                     /\ store[key].expiresAt < now
                                  THEN Absent ELSE store[key]]_vars

\* A sweep has removed the expired entry under k1 and has left the entry
\* under k3 that expires at this very moment, and the string under k2 that
\* does not parse.
C23_Witness ==
  /\ ret.op = "cleanupExpiredCache"
  /\ ret.arg = "removed"
  /\ fault = {}
  /\ store["k1"] = Absent
  /\ store["k3"].kind = "item"
  /\ store["k3"].expiresAt = now
  /\ store["k2"].kind = "garbage"

\* C29: every value in the underlying store is a serialized CacheItem, with
\* its data and its timestamp, after any sequence of StorageManager
\* operations.
C29_EnvelopeOnly ==
  \A key \in DOMAIN store : store[key].kind \in {"absent", "item"}

(***************************************************************************)
(* Properties of ErrorHandler.                                             *)
(***************************************************************************)
Ids(logs) == [i \in DOMAIN logs |-> logs[i].id]

\* The ids handed out by a step, newest first.
NewIds == [i \in 1..(nextId' - nextId) |-> nextId' - i]

ErrorHandlerOps ==
  {"initialize", "logError", "handleNetworkError", "handleStorageError",
   "handleComponentError", "handleValidationError", "handlePerformanceIssue",
   "getErrorLogs", "getUnresolvedErrors", "markErrorResolved", "clearErrorLogs"}

\* C9: no public ErrorHandler operation throws or rejects to its caller,
\* whatever the store does, and logError returns the id of its entry.
C9_NeverFailsLoudly ==
  ret.op \in ErrorHandlerOps
    => /\ ret.tag # "throw"
       /\ ret.op = "logError" => (ret.tag = "data" /\ ret.data[1].id \in 1..MaxIds)

\* C10: the hooks are installed at most once over any interleaving of
\* initialize() calls, and an initialize() call made when initialization is
\* complete changes nothing.
C10_InitializeOnce ==
  [][/\ hooks' <= 1
     /\ (Initialize /\ isInitialized)
          => UNCHANGED <<store, errorLogs, isInitialized, hooks, nextId, alerts,
                         queue>>]_vars

\* C11: getUnresolvedErrors returns exactly the entries of the log whose
\* resolved field is false, so an entry that markErrorResolved has marked is
\* not among them, and getErrorLogs returns every entry of the log.
C11_UnresolvedOnly ==
  [][/\ GetUnresolvedErrors
          => ret'.data = SelectSeq(errorLogs, LAMBDA log : ~log.resolved)
     /\ GetErrorLogs => ret'.data = errorLogs]_vars

\* C12: ErrorHandler presents an alert only in a step that logs an entry of
\* severity critical, or that completes the logError call of such an entry.
C12_CriticalOnlyAlerts ==
  [][alerts' > alerts
       => \/ /\ queue # <<>>
             /\ Head(queue).kind = "logSave"
             /\ Head(queue).severity = "critical"
             /\ queue' = Tail(queue)
          \/ \E i \in DOMAIN errorLogs' :
               errorLogs'[i].id >= nextId /\ errorLogs'[i].severity = "critical"]_vars

\* C17: once the hooks are installed, a call of console.error puts exactly
\* one entry, of severity medium, at the head of the log, and a call of
\* console.warn exactly one entry of severity low.
C17_ConsoleAugments ==
  [][/\ ConsoleErrorCall
          => /\ nextId' = nextId + 1
             /\ errorLogs'[1] = [id |-> nextId, severity |-> "medium", resolved |-> FALSE]
     /\ ConsoleWarnCall
          => /\ nextId' = nextId + 1
             /\ errorLogs'[1] = [id |-> nextId, severity |-> "low", resolved |-> FALSE]]_vars

\* C24: a write of the error log that failed is not recorded as a new
\* entry: the step in which logError learns that its write failed logs what
\* it would have logged after a successful write (the console.error of a
\* development build with the hooks installed) and nothing more, so the
\* chain of logError and setItem calls started by one call ends.
C24_ReportingQuiesces ==
  [][(LogSaved /\ ~Head(queue).ok)
       => nextId' - nextId = IF dev THEN hooks ELSE 0]_vars

\* The ids of the entries of the list, as a set.
IdSet(logs) == {logs[i].id : i \in DOMAIN logs}

\* C26: an entry of the log leaves it only when clearErrorLogs() empties the
\* log or when the cap evicts it, the log then being full of newer entries;
\* and when initialize() has loaded the persisted entries, these are in the
\* log too unless the cap leaves no room for them.
C26_NoLostErrorLog ==
  [][/\ \A id \in IdSet(errorLogs) \ IdSet(errorLogs') :
          \/ ClearErrorLogs
          \/ /\ Len(errorLogs') = MaxErrorLogs
             /\ \A kept \in IdSet(errorLogs') : kept > id
     /\ (InitLoaded /\ Head(queue).val.tag = "data")
          => \/ IdSet(Head(queue).val.data) \subseteq IdSet(errorLogs')
             \/ Len(errorLogs') = MaxErrorLogs]_vars

(***************************************************************************)
(* Properties of NetworkManager.                                           *)
(***************************************************************************)
All(responses, outcome) == \A i \in DOMAIN responses : responses[i] = outcome

C16_UploadReported ==
  [][\A outcome \in Outcomes :
       UploadSettles(outcome)
         => IF outcome = "200"
            THEN ret'.tag = "data" /\ nextId' = nextId /\ alerts' = alerts
            ELSE /\ ret'.tag = "throw"
                 /\ nextId' = nextId + 1
                 /\ alerts' = alerts + 1]_vars

\* C19: in a call whose attempts keep failing with a retryable error, every
\* wait before a further attempt is strictly longer than the one before.
C19_ExponentialBackoff ==
  [][\A i \in 2..Len(req'.delays) : req'.delays[i] > req'.delays[i - 1]]_vars

\* C20: an attempt that receives a response with a success status ends the
\* call, which returns the response's data and status: no further attempt,
\* no delay, and ErrorHandler is not notified.
C20_SuccessShortCircuit ==
  [][\A outcome \in {"200", "200badJson"} :
       Respond(outcome)
         => /\ req'.pc = "done"
            /\ req'.attempts = req.attempts
            /\ req'.delays = req.delays
            /\ ret' = Ret(req.verb, "", "200", Out("data", <<>>))
            /\ nextId' = nextId
            /\ alerts' = alerts]_vars

\* A verb call ends in failure in this step.
VerbCallFails ==
  /\ req' # req
  /\ req'.verb \in Verbs
  /\ req'.pc = "done"
  /\ ret'.tag = "throw"

\* C28: a verb call issues at least one attempt before it can fail, whatever
\* retries its configuration holds, and the error it throws and reports is
\* the error of an attempt, never null.
C28_AtLeastOneAttempt ==
  [][VerbCallFails => /\ req'.attempts >= 1
                      /\ req'.responses # <<>>
                      /\ ret'.arg # "null"]_vars

\* C21: the step in which a verb call fails reports once to
\* handleNetworkError (one entry logged, one alert), with the error of the
\* last attempt and with the resolved URL, which is the URL itself when it
\* starts with 'http' and the base URL followed by it otherwise; no other
\* step of a verb call reports anything.
C21_SingleReport ==
  [][/\ VerbCallFails
          => /\ nextId' = nextId + 1
             /\ alerts' = alerts + 1
             /\ req'.responses # <<>>
             /\ ret'.arg = Status(req'.responses[Len(req'.responses)])
             /\ req'.fullUrl = IF Head(req'.url) = "http" THEN req'.url
                               ELSE BaseUrl \o req'.url
     /\ (req' # req /\ req'.verb \in Verbs /\ ~VerbCallFails)
          => nextId' = nextId /\ alerts' = alerts]_vars

\* C22: when a verb call has returned or thrown, none of the timeout timers
\* its attempts armed is still pending.
C22_TimerCleanup ==
  (req.pc = "done" /\ req.verb \in Verbs) => req.timers = 0

(***************************************************************************)
(* Properties of NotificationManager.                                      *)
(***************************************************************************)
\* C7: a type that updatePreferences has disabled stays disabled until an
\* updatePreferences call enables it, and while it is disabled
\* createNotification for it returns the empty id, leaves the in-memory and
\* the persisted notification list as they were and presents nothing.
C7_PreferenceGating ==
  [][\A type \in NotificationTypes :
       /\ (~preferences[type] /\ preferences'[type])
            => UpdatePreferences([t \in {type} |-> TRUE])
       /\ \A valid \in BOOLEAN :
            (CreateNotification(type, valid) /\ ~preferences[type])
              => /\ ret'.data = <<>>
                 /\ notifications' = notifications
                 /\ store'[NotificationsKey] = store[NotificationsKey]
                 /\ shown' = shown]_vars

NewestFirst(list) == \A i, j \in DOMAIN list : i < j => list[i].id > list[j].id

\* C13: the in-memory notification list never exceeds the cap and is in
\* newest-first order; a createNotification that creates (valid parameters,
\* enabled type) puts the new notification at the head, keeps the others in
\* their order and, when the list was full, drops exactly the oldest.
C13_NotificationCap ==
  [][/\ Len(notifications') <= MaxNotifications
     /\ NewestFirst(notifications')
     /\ \A type \in NotificationTypes :
          (preferences[type] /\ CreateNotification(type, TRUE))
            => /\ notifications'[1] = [id |-> nextId, type |-> type, read |-> FALSE]
               /\ Tail(notifications') =
                    Take(notifications,
                         IF Len(notifications) = MaxNotifications
                         THEN MaxNotifications - 1 ELSE Len(notifications))]_vars

\* The list is full with the two newest notifications, newest at the head,
\* after every id has been given to a notification that was created.
C13_Witness ==
  /\ Len(notifications) = MaxNotifications
  /\ nextId = MaxIds + 1
  /\ shown = 1..MaxIds
  /\ notifications[1].id = MaxIds
  /\ notifications[2].id = MaxIds - 1

InboxOps == {"markAsRead", "markAllAsRead", "deleteNotification", "clearAllNotifications"}

\* C18: markAsRead, markAllAsRead, deleteNotification and
\* clearAllNotifications never throw to the caller; each applies its change
\* to the in-memory list when it is called (read set on the entry with the
\* id, no entry left unread, the entries with the id removed and the rest
\* kept in order, the list emptied), and a failed save is logged and
\* swallowed.
C18_BestEffort ==
  [][/\ ret'.op \in InboxOps => ret'.tag = "ok"
     /\ \A id \in 0..MaxIds :
          /\ MarkAsRead(id)
               => /\ Len(notifications') = Len(notifications)
                  /\ \A i \in DOMAIN notifications :
                       /\ notifications'[i].id = notifications[i].id
                       /\ notifications'[i].type = notifications[i].type
                       /\ notifications'[i].read =
                            (notifications[i].read \/ notifications[i].id = id)
          /\ DeleteNotification(id)
               => notifications' = SelectSeq(notifications, LAMBDA n : n.id # id)
     /\ MarkAllAsRead
          => /\ Len(notifications') = Len(notifications)
             /\ \A i \in DOMAIN notifications' : notifications'[i].read
     /\ ClearAllNotifications => notifications' = <<>>
     /\ (InboxSaved /\ ~Head(queue).ok)
          => /\ ret'.tag = "ok"
             /\ nextId' = nextId + 2
             /\ notifications' = notifications]_vars

\* A deleteNotification whose save failed has returned normally: the entry
\* is gone from the in-memory list, still in the persisted one, and the
\* failure is in the error log.
C18_Witness ==
  /\ ret.op = "deleteNotification"
  /\ ret.tag = "ok"
  /\ "write" \in fault
  /\ notifications = <<>>
  /\ store[NotificationsKey].kind = "item"
  /\ store[NotificationsKey].data # <<>>
  /\ Len(errorLogs) = 2

\* C27: getHealthStatus, run with no other call in between, leaves the list
\* of notifications as it found it, ids and order, whatever its length up to
\* the cap; the counts it reports are those of that list, and it returns
\* without throwing.
C27_HealthCheckFrame ==
  [][GetHealthStatus
       => /\ Ids(notifications') = Ids(notifications)
          /\ ret'.tag = "data"
          /\ ret'.data[1].notificationCount = Len(notifications')
          /\ ret'.data[1].unreadCount
               = Len(SelectSeq(notifications', LAMBDA n : ~n.read))]_vars

\* The cap has evicted the notification: the list is full of newer ones.
Evicted(id, list) ==
  /\ Len(list) = MaxNotifications
  /\ \A kept \in IdSet(list) : kept > id

\* C25: when createNotification returns an id, the notification of that id
\* is in the list unless the cap has evicted it, and from then on it leaves
\* the list only by deleteNotification(id), by clearAllNotifications() or
\* by eviction, also when the calls are made while the loads started by the
\* constructor are in flight.
C25_NoLostNotification ==
  [][/\ NotificationSaved
          => \/ Head(queue).id \in IdSet(notifications')
             \/ Evicted(Head(queue).id, notifications')
     /\ \A id \in (IdSet(notifications) \cap shown) \ IdSet(notifications') :
          \/ DeleteNotification(id)
          \/ ClearAllNotifications
          \/ Evicted(id, notifications')]_vars


(***************************************************************************)
(* Properties of TextParser.                                               *)
(***************************************************************************)
\* Both expressions at the start of the text, as after the class is loaded.
Fresh == [mention |-> 0, hashtag |-> 0]

ParserOps ==
  {"hasSpecialContent", "parseText", "extractMentions", "extractHashtags"}

\* C30: every call of hasSpecialContent, parseText, extractMentions and
\* extractHashtags returns for its text what it returns when it is the
\* first call made, whatever calls of TextParser went before it.
C30_Stateless ==
  [][ret'.op \in ParserOps
       => LET text == ret'.data[1].text IN
          /\ HasSpecialContent(text)
               => ret'.data[1].result
                    = Boolean(TPHasSpecialContent(text, Fresh).result)
          /\ ParseText(text)
               => ret'.data[1].result = TPParseText(text, Fresh)
          /\ ExtractMentions(text)
               => ret'.data[1].result = Strings(TPExtract("@", text, 0))
          /\ ExtractHashtags(text)
               => ret'.data[1].result = Strings(TPExtract("#", text, 0))]_vars

=============================================================================
